---- MODULE Spec2Model ----
(***************************************************************************)
(* Calm Learning Hub (src/app.py): accounts, the relationship graph,       *)
(* lessons, the assignment tracker and the help mailbox, modelled over the *)
(* six SQLite tables the script creates in init_db.                        *)
(*                                                                         *)
(* Row ids are AUTOINCREMENT keys and no table has a DELETE path, so a     *)
(* table is a sequence and a row's id is its position in it.               *)
(* Text that the code splits or strips (friendly_text, the help message)   *)
(* is a sequence of one-character strings; text that the code only tests   *)
(* for emptiness (name, email, password, title, original_text) is a string *)
(* and "" is the empty input.                                              *)
(* Columns no handler branches on (image_b64, created_at) are left out.    *)
(***************************************************************************)
EXTENDS Integers, Sequences, FiniteSets, TLC

VARIABLES
    users,               \* table users
    teacher_learners,    \* table teacher_learners
    parent_children,     \* table parent_children
    lessons,             \* table lessons
    lesson_assignments,  \* table lesson_assignments
    help_requests,       \* table help_requests
    runs,                \* per browser session: the learner_dashboard script run in flight
    last                 \* history: the handler that ran last and the branch it took

vars == <<users, teacher_learners, parent_children, lessons, lesson_assignments,
          help_requests, runs, last>>

----------------------------------------------------------------------------
(* Bounds of the model *)

MaxUsers == 2
MaxLinks == 2
MaxLessons == 1
MaxAssignments == 2
MaxHelp == 2

(* Input domains *)

NULL == "NULL"
Roles == {"learner", "teacher", "parent"}
NameInputs == {"", "Ann", "Ben"}
EmailList == <<"a@x", "b@x", "c@x", "d@x", "e@x">>
EmailInputs == {""} \cup {EmailList[i] : i \in 1..MaxUsers}
PasswordInputs == {"", "pw"}
TitleInputs == {"", "Title"}
OriginalInputs == {"", "Original."}
Sessions == {"s1", "s2"}
Times == {"t1", "t2"}
NL == "\n"
\* the text area of the preview: empty, blank lines only, and one, two or three
\* steps joined by a blank line as the generators join them
FriendlyInputs ==
    { <<>>,
      <<" ", NL>>,
      <<"a">>,
      <<"a", NL, NL, "b">>,
      <<"a", NL, NL, "b", NL, NL, "c">> }
\* the "Create lesson" form as submitted: every field filled in, or exactly one left empty
LessonForms ==
    {f \in [title : TitleInputs, original_text : OriginalInputs,
             friendly_text : FriendlyInputs] :
        \/ f.title # "" /\ f.original_text # "" /\ f.friendly_text # <<>>
        \/ f.title = "" /\ f.original_text # "" /\ f.friendly_text = <<"a">>
        \/ f.title # "" /\ f.original_text = "" /\ f.friendly_text = <<"a">>
        \/ f.title # "" /\ f.original_text # "" /\ f.friendly_text = <<>>}
MessageInputs == { <<>>, <<" ", NL>>, <<" ", "h", "i", NL>>, <<"a", " ", "b">> }

----------------------------------------------------------------------------
(* Python str and list primitives *)

Whitespace == {" ", NL}

RECURSIVE LStrip(_)
LStrip(s) ==
    IF s = <<>> THEN <<>>
    ELSE IF Head(s) \in Whitespace THEN LStrip(Tail(s)) ELSE s

RECURSIVE RStrip(_)
RStrip(s) ==
    IF s = <<>> THEN <<>>
    ELSE IF s[Len(s)] \in Whitespace THEN RStrip(SubSeq(s, 1, Len(s) - 1)) ELSE s

\* str.strip()
Strip(s) == RStrip(LStrip(s))

\* str.split("\n"): always at least one piece, empty pieces kept
RECURSIVE SplitLines(_)
SplitLines(s) ==
    IF \A i \in 1..Len(s) : s[i] # NL THEN <<s>>
    ELSE LET i == CHOOSE k \in 1..Len(s) :
                      s[k] = NL /\ \A j \in 1..(k - 1) : s[j] # NL
         IN  <<SubSeq(s, 1, i - 1)>> \o SplitLines(SubSeq(s, i + 1, Len(s)))

\* steps = [s for s in a["friendly_text"].split("\n") if s.strip()]
Steps(friendly_text) ==
    SelectSeq(SplitLines(friendly_text), LAMBDA s : Strip(s) # <<>>)

\* total_steps = len(steps)
TotalSteps(friendly_text) == Len(Steps(friendly_text))

\* hashlib.sha256 is taken to be injective
hash_password(pw) == <<"sha256", pw>>

Range(s) == {s[i] : i \in 1..Len(s)}

\* the sequences over S without repetition (the order a multiselect was filled in)
RECURSIVE Orderings(_)
Orderings(S) ==
    IF S = {} THEN {<<>>}
    ELSE UNION {{<<x>> \o t : t \in Orderings(S \ {x})} : x \in S}

Selections(S) == UNION {Orderings(T) : T \in SUBSET S}

----------------------------------------------------------------------------
(* Queries *)

UserIds == DOMAIN users

\* ORDER BY u.name: names compare as strings; the model orders its two names
NameRank(name) == IF name = "Ann" THEN 1 ELSE IF name = "Ben" THEN 2 ELSE 0

\* a stable sort of user ids by name
RECURSIVE InsertByName(_, _)
InsertByName(sorted, id) ==
    IF sorted = <<>> THEN <<id>>
    ELSE IF NameRank(users[id].name) < NameRank(users[Head(sorted)].name)
         THEN <<id>> \o sorted
         ELSE <<Head(sorted)>> \o InsertByName(Tail(sorted), id)

RECURSIVE OrderByName(_)
OrderByName(ids) ==
    IF ids = <<>> THEN <<>>
    ELSE InsertByName(OrderByName(SubSeq(ids, 1, Len(ids) - 1)), ids[Len(ids)])

\* get_user_by_email: the row or None
get_user_by_email(email) == {i \in UserIds : users[i].email = email}

\* search_learners: every learner is found by some query
search_learners == {i \in UserIds : users[i].role = "learner"}

\* the ids of SELECT u.* ... JOIN teacher_learners ...: one row per edge, no DISTINCT
JoinLearners(edges, grownup_id) ==
    LET mine == SelectSeq(edges, LAMBDA e : e.grownup_id = grownup_id
                                             /\ e.learner_id \in UserIds)
    IN  OrderByName([i \in 1..Len(mine) |-> mine[i].learner_id])

get_teacher_learners(teacher_id) == JoinLearners(teacher_learners, teacher_id)

\* a bug: the query lists every learner account, linked or not
get_every_learner(parent_id) ==
    OrderByName(SelectSeq([i \in 1..Len(users) |-> i],
                          LAMBDA i : users[i].role = "learner"))

get_parent_children(parent_id) == JoinLearners(parent_children, parent_id)

\* SELECT DISTINCT u.* ... LEFT JOIN teacher_learners ... LEFT JOIN parent_children
get_linked_grownups_for_learner(learner_id) ==
    {u \in UserIds :
        \/ \E i \in DOMAIN teacher_learners :
              teacher_learners[i] = [grownup_id |-> u, learner_id |-> learner_id]
        \/ \E i \in DOMAIN parent_children :
              parent_children[i] = [grownup_id |-> u, learner_id |-> learner_id]}

----------------------------------------------------------------------------
(* State after init_db on a fresh database *)

NoRun == [pc |-> "idle", id |-> 0, status |-> NULL, current_step |-> 0, total_steps |-> 0]

Init ==
    /\ users = <<>>
    /\ teacher_learners = <<>>
    /\ parent_children = <<>>
    /\ lessons = <<>>
    /\ lesson_assignments = <<>>
    /\ help_requests = <<>>
    /\ runs = [s \in Sessions |-> NoRun]
    /\ last = [op |-> "init_db", branch |-> "ok"]

----------------------------------------------------------------------------
(* Accounts and the relationship graph *)

\* signup_form, the "Sign up" button
Signup(role, name, email, password, password2) ==
    /\ UNCHANGED <<teacher_learners, parent_children, lessons, lesson_assignments,
                   help_requests, runs>>
    /\ IF name = "" \/ email = "" \/ password = ""
       THEN /\ last' = [op |-> "signup", branch |-> "missing"]
            /\ UNCHANGED users
       ELSE IF password # password2
       THEN /\ last' = [op |-> "signup", branch |-> "mismatch"]
            /\ UNCHANGED users
       ELSE IF get_user_by_email(email) # {}
       THEN /\ last' = [op |-> "signup", branch |-> "exists"]
            /\ UNCHANGED users
       ELSE /\ Len(users) < MaxUsers
            /\ users' = Append(users, [name |-> name, email |-> email,
                                       password_hash |-> hash_password(password),
                                       role |-> role])
            /\ last' = [op |-> "signup", branch |-> "created"]

\* teacher_dashboard, the "Add" button of a search result
TeacherAddLearner(teacher_id, learner_id) ==
    /\ teacher_id \in UserIds /\ users[teacher_id].role = "teacher"
    /\ learner_id \in search_learners
    /\ Len(teacher_learners) < MaxLinks
    /\ teacher_learners' = Append(teacher_learners,
                                  [grownup_id |-> teacher_id, learner_id |-> learner_id])
    /\ last' = [op |-> "add_learner", branch |-> "ok"]
    /\ UNCHANGED <<users, parent_children, lessons, lesson_assignments,
                   help_requests, runs>>

\* parent_dashboard, the "Add as my child" button of a search result
ParentAddChild(parent_id, learner_id) ==
    /\ parent_id \in UserIds /\ users[parent_id].role = "parent"
    /\ learner_id \in search_learners
    /\ Len(parent_children) < MaxLinks
    /\ parent_children' = Append(parent_children,
                                 [grownup_id |-> parent_id, learner_id |-> learner_id])
    /\ last' = [op |-> "add_child", branch |-> "ok"]
    /\ UNCHANGED <<users, teacher_learners, lessons, lesson_assignments,
                   help_requests, runs>>

----------------------------------------------------------------------------
(* Lessons and assignments *)

\* the multiselect label f"{l['name']} ({l['email']})"
LearnerLabel(id) == <<users[id].name, users[id].email>>

\* a bug: the multiselect offers one option per row of the query instead of one per label
learner_map_per_row(learners) ==
    LET labels == {LearnerLabel(learners[i]) : i \in DOMAIN learners}
        repeated == {LearnerLabel(learners[i]) \o <<"again">> :
                        i \in {k \in DOMAIN learners :
                                  \E j \in 1..(k - 1) :
                                     LearnerLabel(learners[j]) = LearnerLabel(learners[k])}}
    IN  [key \in labels \cup repeated |->
            learners[CHOOSE i \in DOMAIN learners :
                        LearnerLabel(learners[i]) = SubSeq(key, 1, 2)]]

\* learner_map = {label: l["id"] for l in learners}: a later row replaces an earlier one
learner_map(learners) ==
    [label \in {LearnerLabel(learners[i]) : i \in DOMAIN learners} |->
        learners[CHOOSE i \in DOMAIN learners :
                    /\ LearnerLabel(learners[i]) = label
                    /\ \A j \in DOMAIN learners :
                          LearnerLabel(learners[j]) = label => j <= i]]

\* INSERT INTO lesson_assignments ... VALUES (?, ?, 'assigned', 0, NULL)
NewAssignment(lesson_id, learner_id) ==
    [lesson_id |-> lesson_id, learner_id |-> learner_id, status |-> "assigned",
     progress_step |-> 0, completed_at |-> NULL]

\* a bug: the preview text is not tested
FormMissingNoPreview(title, original_text, friendly_text) ==
    title = "" \/ original_text = ""

\* if not title or not original_text or not friendly_text:
FormMissing(title, original_text, friendly_text) ==
    title = "" \/ original_text = "" \/ friendly_text = <<>>

\* the body of the "Save & assign lesson" / "Save & send" button, for either role;
\* selected_names is the multiselect, in the order it was filled in
SaveLesson(owner_id, owner_role, map, title, original_text, friendly_text) ==
    /\ UNCHANGED <<users, teacher_learners, parent_children, help_requests, runs>>
    /\ IF FormMissing(title, original_text, friendly_text)
       THEN /\ last' = [op |-> "save_lesson", branch |-> "rejected"]
            /\ UNCHANGED <<lessons, lesson_assignments>>
       ELSE /\ Len(lessons) < MaxLessons
            /\ \E selected_names \in Selections(DOMAIN map) :
                  /\ Len(lesson_assignments) + Len(selected_names) <= MaxAssignments
                  /\ lesson_assignments' = lesson_assignments \o
                         [i \in 1..Len(selected_names) |->
                             NewAssignment(Len(lessons) + 1, map[selected_names[i]])]
            /\ lessons' = Append(lessons, [owner_id |-> owner_id, owner_role |-> owner_role,
                                           title |-> title, original_text |-> original_text,
                                           friendly_text |-> friendly_text])
            /\ last' = [op |-> "save_lesson", branch |-> "saved"]

\* teacher_dashboard, tab "Create lesson"
TeacherSaveLesson(teacher_id, title, original_text, friendly_text) ==
    /\ users[teacher_id].role = "teacher"
    /\ SaveLesson(teacher_id, "teacher", learner_map(get_teacher_learners(teacher_id)),
                  title, original_text, friendly_text)

\* parent_dashboard, tab "Create lesson"
ParentSaveLesson(parent_id, title, original_text, friendly_text) ==
    /\ users[parent_id].role = "parent"
    /\ SaveLesson(parent_id, "parent", learner_map(get_parent_children(parent_id)),
                  title, original_text, friendly_text)

\* the INSERT statements the handler executes, in order: the lesson, then one row per
\* selected learner
SaveStatements(selected_names) == 1 + Len(selected_names)

\* a bug: the connection is opened with isolation_level=None and every statement commits
PersistedAutocommit(executed, statements) ==
    IF executed > statements THEN statements ELSE executed

\* how many of the handler's INSERTs are in the database file when the process dies after
\* `executed` of its steps, conn.commit() being step statements + 1: sqlite3 opens a
\* transaction before the first INSERT and the handler commits once, after the loop
Persisted(executed, statements) ==
    IF executed > statements THEN statements ELSE 0

\* the "Save & assign lesson" / "Save & send" handler of a grown-up, cut short by the death
\* of the process after `executed` INSERTs and before conn.commit()
SaveLessonCrash(owner_id, selected_names, title, original_text, friendly_text, executed) ==
    /\ users[owner_id].role \in {"teacher", "parent"}
    /\ ~FormMissing(title, original_text, friendly_text)
    /\ Len(lessons) < MaxLessons
    /\ LET map == IF users[owner_id].role = "teacher"
                  THEN learner_map(get_teacher_learners(owner_id))
                  ELSE learner_map(get_parent_children(owner_id))
           statements == SaveStatements(selected_names)
           durable == Persisted(executed, statements)
       IN  /\ selected_names \in Selections(DOMAIN map)
           /\ Len(lesson_assignments) + Len(selected_names) <= MaxAssignments
           /\ executed \in 1..statements
           /\ lessons' =
                 IF durable >= 1
                 THEN Append(lessons, [owner_id |-> owner_id,
                                       owner_role |-> users[owner_id].role,
                                       title |-> title, original_text |-> original_text,
                                       friendly_text |-> friendly_text])
                 ELSE lessons
           /\ lesson_assignments' = lesson_assignments \o
                 [i \in 1..(IF durable >= 1 THEN durable - 1 ELSE 0) |->
                     NewAssignment(Len(lessons) + 1, map[selected_names[i]])]
    /\ last' = [op |-> "save_lesson", branch |-> "crashed", executed |-> executed,
                selected |-> Len(selected_names)]
    /\ UNCHANGED <<users, teacher_learners, parent_children, help_requests, runs>>

----------------------------------------------------------------------------
(* learner_dashboard, tab "My lessons" *)

AssignmentIds == DOMAIN lesson_assignments

\* the text joined to assignment row id
FriendlyText(id) == lessons[lesson_assignments[id].lesson_id].friendly_text

\* get_assigned_lessons: the learner's rows whose lesson and owner exist (ORDER BY la.id DESC
\* is the order HigherRows follows)
get_assigned_lessons(learner_id) ==
    {id \in AssignmentIds :
        /\ lesson_assignments[id].learner_id = learner_id
        /\ lesson_assignments[id].lesson_id \in DOMAIN lessons
        /\ lessons[lesson_assignments[id].lesson_id].owner_id \in UserIds}

\* current_step = a["progress_step"], then the two clamping ifs
ClampStep(progress_step, total_steps) ==
    LET low == IF progress_step < 0 THEN 0 ELSE progress_step
    IN  IF low >= total_steps THEN total_steps - 1 ELSE low

\* the step index the read path computes for a stored row
CurrentStep(id) ==
    ClampStep(lesson_assignments[id].progress_step, TotalSteps(FriendlyText(id)))

\* steps[current_step] on a Python list: IndexError unless -len <= index < len
IndexOk(index, length) == -length <= index /\ index < length

\* rendering row id raises IndexError
Raises(id) == ~IndexOk(CurrentStep(id), TotalSteps(FriendlyText(id)))

\* the script run of a click on a button of row id: line 729 reads the rows, the loop renders
\* them newest first, and the run reaches the buttons of row id unless that row or a row
\* rendered before it raises
Load(s, id) ==
    /\ runs[s].pc = "idle"
    /\ LET learner_id == lesson_assignments[id].learner_id
           rows == get_assigned_lessons(learner_id)
       IN  /\ learner_id \in UserIds
           /\ users[learner_id].role \notin {"teacher", "parent"}
           /\ id \in rows
           /\ \A r \in rows : r >= id => ~Raises(r)
    /\ runs' = [runs EXCEPT ![s] =
                   [pc |-> "loaded", id |-> id,
                    status |-> lesson_assignments[id].status,
                    current_step |-> CurrentStep(id),
                    total_steps |-> TotalSteps(FriendlyText(id))]]
    /\ UNCHANGED <<users, teacher_learners, parent_children, lessons, lesson_assignments,
                   help_requests, last>>

\* the run ends with no button of the row pressed
EndRun(s) ==
    /\ runs[s].pc = "loaded"
    /\ runs' = [runs EXCEPT ![s] = NoRun]
    /\ UNCHANGED <<users, teacher_learners, parent_children, lessons, lesson_assignments,
                   help_requests, last>>

\* a bug: the UPDATE also writes the status column
SetProgressResetsStatus(row, new_step) ==
    [row EXCEPT !.progress_step = new_step, !.status = "assigned"]

\* a bug: the UPDATE carries AND status != 'completed'
SetProgressUnlessCompleted(row, new_step) ==
    IF row.status = "completed" THEN row ELSE [row EXCEPT !.progress_step = new_step]

\* UPDATE lesson_assignments SET progress_step = ? ...
SetProgress(row, new_step) == [row EXCEPT !.progress_step = new_step]

\* a bug: the UPDATE has no WHERE clause
UpdateProgressEveryRow(table, id, new_step) ==
    [i \in DOMAIN table |-> [table[i] EXCEPT !.progress_step = new_step]]

\* a bug: the UPDATE moves the stored step by one instead of storing the step computed
\* from the run's read
UpdateProgressRelative(table, id, new_step) ==
    [table EXCEPT ![id].progress_step = IF new_step >= @ THEN @ + 1 ELSE @ - 1]

\* ... WHERE id = ?
UpdateProgress(table, id, new_step) == [table EXCEPT ![id] = SetProgress(@, new_step)]

\* a bug: the UPDATE leaves progress_step where it was
MarkCompletedKeepsStep(row, last_step, now) ==
    [row EXCEPT !.status = "completed", !.completed_at = now]

\* a bug: the UPDATE does not set completed_at
MarkCompletedNoTimestamp(row, last_step, now) ==
    [row EXCEPT !.status = "completed", !.progress_step = last_step]

\* UPDATE lesson_assignments SET status = 'completed', progress_step = ?, completed_at = ?
MarkCompleted(row, last_step, now) ==
    [row EXCEPT !.status = "completed", !.progress_step = last_step, !.completed_at = now]

\* a bug: >= for >
CanGoBackAtZero(current_step) == current_step >= 0

\* ... and current_step > 0
CanGoBack(current_step) == current_step > 0

\* a bug: the - 1 is missing
CanGoNextPastEnd(current_step, total_steps) == current_step < total_steps

\* ... and current_step < total_steps - 1
CanGoNext(current_step, total_steps) == current_step < total_steps - 1

\* a bug: the finish button is rendered whatever the status
CanFinishAlways(status) == TRUE

\* if a["status"] != "completed": the finish button is rendered
CanFinish(status) == status # "completed"

\* history of a click: the handler and its branch and, when another session's write came
\* between this run's read (line 729) and its click, the step the run had read and the
\* step it found stored
ClickRecord(s, op, branch) ==
    IF \/ runs[s].current_step # CurrentStep(runs[s].id)
       \/ runs[s].status # lesson_assignments[runs[s].id].status
    THEN [op |-> op, branch |-> branch, read |-> runs[s].current_step,
          stored |-> lesson_assignments[runs[s].id].progress_step]
    ELSE [op |-> op, branch |-> branch]

\* the "Back" button
BackClick(s) ==
    /\ runs[s].pc = "loaded"
    /\ IF CanGoBack(runs[s].current_step)
       THEN /\ lesson_assignments' =
                   UpdateProgress(lesson_assignments, runs[s].id, runs[s].current_step - 1)
            /\ last' = ClickRecord(s, "back", "moved")
       ELSE /\ UNCHANGED lesson_assignments
            /\ last' = ClickRecord(s, "back", "ignored")
    /\ runs' = [runs EXCEPT ![s] = NoRun]
    /\ UNCHANGED <<users, teacher_learners, parent_children, lessons, help_requests>>

\* the "Next" button
NextClick(s) ==
    /\ runs[s].pc = "loaded"
    /\ IF CanGoNext(runs[s].current_step, runs[s].total_steps)
       THEN /\ lesson_assignments' =
                   UpdateProgress(lesson_assignments, runs[s].id, runs[s].current_step + 1)
            /\ last' = ClickRecord(s, "next", "moved")
       ELSE /\ UNCHANGED lesson_assignments
            /\ last' = ClickRecord(s, "next", "ignored")
    /\ runs' = [runs EXCEPT ![s] = NoRun]
    /\ UNCHANGED <<users, teacher_learners, parent_children, lessons, help_requests>>

\* the "I finished this lesson" button, or the "Already marked as complete" notice in its place
FinishClick(s, now) ==
    /\ runs[s].pc = "loaded"
    /\ IF CanFinish(runs[s].status)
       THEN /\ lesson_assignments' =
                   [lesson_assignments EXCEPT ![runs[s].id] =
                       MarkCompleted(@, runs[s].total_steps - 1, now)]
            /\ last' = ClickRecord(s, "finish", "completed")
       ELSE /\ UNCHANGED lesson_assignments
            /\ last' = ClickRecord(s, "finish", "already")
    /\ runs' = [runs EXCEPT ![s] = NoRun]
    /\ UNCHANGED <<users, teacher_learners, parent_children, lessons, help_requests>>

----------------------------------------------------------------------------
(* The help mailbox *)

\* the selectbox label f"{g['name']} ({g['role']})"
GrownupLabel(id) == <<users[id].name, users[id].role>>

\* options = {label: g["id"] for g in grownups}; the query names no order, rows come in
\* rowid order and a later row replaces an earlier one with the same label
options(grownups) ==
    [label \in {GrownupLabel(g) : g \in grownups} |->
        CHOOSE g \in grownups :
            /\ GrownupLabel(g) = label
            /\ \A h \in grownups : GrownupLabel(h) = label => h <= g]

\* a bug: the test is "if not message"
MessageNotEmpty(message) == message # <<>>

\* if not message.strip(): ... else:
MessageGiven(message) == Strip(message) # <<>>

\* INSERT INTO help_requests (...) VALUES (?, ?, ?, ?, 0)
NewHelpRequest(learner_id, to_user_id, message) ==
    [learner_id |-> learner_id, to_user_id |-> to_user_id,
     message |-> Strip(message), resolved |-> 0]

\* learner_dashboard, tab "Ask for help", the "Send help request" button
SendHelpRequest(learner_id, to_label, message) ==
    /\ users[learner_id].role \notin {"teacher", "parent"}
    /\ LET grownups == get_linked_grownups_for_learner(learner_id)
       IN  /\ grownups # {}
           /\ to_label \in DOMAIN options(grownups)
           /\ IF ~MessageGiven(message)
              THEN /\ last' = [op |-> "help", branch |-> "rejected"]
                   /\ UNCHANGED help_requests
              ELSE /\ Len(help_requests) < MaxHelp
                   /\ help_requests' = Append(help_requests,
                          NewHelpRequest(learner_id, options(grownups)[to_label], message))
                   /\ last' = [op |-> "help", branch |-> "sent"]
    /\ UNCHANGED <<users, teacher_learners, parent_children, lessons, lesson_assignments,
                   runs>>

\* a bug: the UPDATE flips the flag
ToggleResolved(row) == [row EXCEPT !.resolved = 1 - @]

\* UPDATE help_requests SET resolved = 1 WHERE id = ?
MarkResolved(row) == [row EXCEPT !.resolved = 1]

\* the rows a grown-up's "Help requests" tab lists: addressed to them, learner still a user
HelpRowsFor(user_id) ==
    {id \in DOMAIN help_requests :
        /\ help_requests[id].to_user_id = user_id
        /\ help_requests[id].learner_id \in UserIds}

\* the "Mark resolved" button of row id, or the "Resolved" notice in its place.  seen is
\* the resolved column as the run's SELECT read it: the stored value, or 0 when another
\* session's UPDATE was committed between this run's SELECT and its own UPDATE
Resolve(user_id, id, seen) ==
    /\ id \in HelpRowsFor(user_id)
    /\ seen \in {0, help_requests[id].resolved}
    /\ IF seen = 0
       THEN /\ help_requests' = [help_requests EXCEPT ![id] = MarkResolved(@)]
            /\ last' = [op |-> "resolve", branch |-> "marked"]
       ELSE /\ UNCHANGED help_requests
            /\ last' = [op |-> "resolve", branch |-> "notice"]
    /\ UNCHANGED <<users, teacher_learners, parent_children, lessons, lesson_assignments,
                   runs>>

\* teacher_dashboard, tab "Help requests"
TeacherResolve(teacher_id, id, seen) ==
    /\ users[teacher_id].role = "teacher"
    /\ Resolve(teacher_id, id, seen)

\* parent_dashboard, tab "Help requests"
ParentResolve(parent_id, id, seen) ==
    /\ users[parent_id].role = "parent"
    /\ Resolve(parent_id, id, seen)

----------------------------------------------------------------------------
(* Specifications *)

Next ==
    \/ \E role \in Roles, name \in NameInputs, email \in EmailInputs,
          password \in PasswordInputs, password2 \in PasswordInputs :
          Signup(role, name, email, password, password2)
    \/ \E t \in UserIds, l \in UserIds : TeacherAddLearner(t, l)
    \/ \E p \in UserIds, l \in UserIds : ParentAddChild(p, l)

Spec == Init /\ [][Next]_vars

\* A database with accounts and links in place: four sign-ups, two "Add" clicks of the
\* teacher and one "Add as my child" click of the parent
InitLinked ==
    /\ users = << [name |-> "Ben", email |-> "a@x", password_hash |-> hash_password("pw"),
                   role |-> "teacher"],
                  [name |-> "Ann", email |-> "b@x", password_hash |-> hash_password("pw"),
                   role |-> "parent"],
                  [name |-> "Ben", email |-> "c@x", password_hash |-> hash_password("pw"),
                   role |-> "learner"],
                  [name |-> "Ann", email |-> "d@x", password_hash |-> hash_password("pw"),
                   role |-> "learner"] >>
    /\ teacher_learners = << [grownup_id |-> 1, learner_id |-> 3],
                             [grownup_id |-> 1, learner_id |-> 4] >>
    /\ parent_children = << [grownup_id |-> 2, learner_id |-> 3] >>
    /\ lessons = <<>>
    /\ lesson_assignments = <<>>
    /\ help_requests = <<>>
    /\ runs = [s \in Sessions |-> NoRun]
    /\ last = [op |-> "init_db", branch |-> "ok"]

NextTracker ==
    \/ \E t \in UserIds, f \in LessonForms :
          TeacherSaveLesson(t, f.title, f.original_text, f.friendly_text)
    \/ \E p \in UserIds, f \in LessonForms :
          ParentSaveLesson(p, f.title, f.original_text, f.friendly_text)
    \/ \E s \in Sessions, id \in AssignmentIds : Load(s, id)
    \/ \E s \in Sessions : EndRun(s)
    \/ \E s \in Sessions : BackClick(s)
    \/ \E s \in Sessions : NextClick(s)
    \/ \E s \in Sessions, now \in Times : FinishClick(s, now)

SpecTracker == InitLinked /\ [][NextTracker]_vars

NextHelp ==
    \/ \E l \in UserIds, g \in UserIds, message \in MessageInputs :
          SendHelpRequest(l, GrownupLabel(g), message)
    \/ \E t \in UserIds, id \in DOMAIN help_requests, seen \in {0, 1} :
          TeacherResolve(t, id, seen)
    \/ \E p \in UserIds, id \in DOMAIN help_requests, seen \in {0, 1} :
          ParentResolve(p, id, seen)

SpecHelp == InitLinked /\ [][NextHelp]_vars

\* the labels a multiselect can hold
LabelInputs == {LearnerLabel(l) : l \in search_learners}

\* sign-up, linking and lesson creation on a fresh database
NextCreate ==
    \/ \E role \in Roles, name \in NameInputs, email \in EmailInputs,
          password \in PasswordInputs, password2 \in PasswordInputs :
          Signup(role, name, email, password, password2)
    \/ \E t \in UserIds, l \in UserIds : TeacherAddLearner(t, l)
    \/ \E p \in UserIds, l \in UserIds : ParentAddChild(p, l)
    \/ \E t \in UserIds, f \in LessonForms :
          TeacherSaveLesson(t, f.title, f.original_text, f.friendly_text)
    \/ \E p \in UserIds, f \in LessonForms :
          ParentSaveLesson(p, f.title, f.original_text, f.friendly_text)
    \/ \E g \in UserIds, f \in LessonForms, selected_names \in Selections(LabelInputs),
          executed \in 1..(MaxAssignments + 1) :
          SaveLessonCrash(g, selected_names, f.title, f.original_text, f.friendly_text,
                          executed)

SpecCreate == Init /\ [][NextCreate]_vars

----------------------------------------------------------------------------
(* Properties *)

MaxAdvances == 4

Min(a, b) == IF a < b THEN a ELSE b

\* the stored progress_step after one forward advance made on its own: the run reads the
\* stored value, clamps it, and the Next click writes or is ignored
AfterForward(progress_step, total_steps) ==
    LET current_step == ClampStep(progress_step, total_steps)
    IN  IF CanGoNext(current_step, total_steps) THEN current_step + 1 ELSE progress_step

\* ... and after k of them on a new assignment
RECURSIVE ForwardTimes(_, _)
ForwardTimes(k, total_steps) ==
    IF k = 0 THEN NewAssignment(0, 0).progress_step
    ELSE AfterForward(ForwardTimes(k - 1, total_steps), total_steps)

\* C1: every assignment's status is 'assigned' or 'completed', and no step of any
\* handler, in any interleaving of the sessions, takes a 'completed' assignment back
\* to 'assigned'.
C1_StatusOneWay ==
    /\ [](\A id \in AssignmentIds :
             lesson_assignments[id].status \in {"assigned", "completed"})
    /\ [][\A id \in AssignmentIds :
             lesson_assignments[id].status = "completed"
                => lesson_assignments'[id].status = "completed"]_vars

\* a completed assignment was stepped back afterwards and is still completed
C1_Witness ==
    /\ last = [op |-> "back", branch |-> "moved"]
    /\ \E id \in AssignmentIds :
          /\ lesson_assignments[id].status = "completed"
          /\ lesson_assignments[id].progress_step < TotalSteps(FriendlyText(id)) - 1

\* C2: the finish click on an assignment stored as 'assigned' stores status 'completed',
\* progress_step = (number of non-empty lines of the lesson's friendly text) - 1 and a
\* non-null completed_at, whatever progress_step was stored before.
C2_CompleteSnaps ==
    [][\A s \in Sessions, now \in Times :
          (FinishClick(s, now) /\ lesson_assignments[runs[s].id].status = "assigned")
             => LET id == runs[s].id
                IN  /\ lesson_assignments'[id].status = "completed"
                    /\ lesson_assignments'[id].progress_step
                          = TotalSteps(FriendlyText(id)) - 1
                    /\ lesson_assignments'[id].completed_at # NULL]_vars

\* a three-step lesson was finished while the other session still holds the row as it
\* read it at step 0
C2_Witness ==
    /\ last = [op |-> "finish", branch |-> "completed"]
    /\ \E id \in AssignmentIds, s \in Sessions :
          /\ TotalSteps(FriendlyText(id)) = 3
          /\ lesson_assignments[id].status = "completed"
          /\ lesson_assignments[id].progress_step = 2
          /\ lesson_assignments[id].completed_at # NULL
          /\ runs[s] = [pc |-> "loaded", id |-> id, status |-> "assigned",
                        current_step |-> 0, total_steps |-> 3]

\* C3: the finish click of a run that read the assignment as 'completed' changes no
\* assignment: status, progress_step and completed_at stay as they were.
C3_CompleteIdempotent ==
    [][\A s \in Sessions, now \in Times :
          (FinishClick(s, now) /\ runs[s].status = "completed")
             => lesson_assignments' = lesson_assignments]_vars

\* the finish click met a completed assignment
C3_Witness ==
    /\ last = [op |-> "finish", branch |-> "already"]
    /\ \E id \in AssignmentIds : lesson_assignments[id].status = "completed"

\* C4: the Next click stores current step + 1 when the current step is below
\* total_steps - 1 and leaves the stored progress_step alone otherwise; on a new
\* assignment of a lesson with n >= 1 steps, k forward advances in a row leave
\* progress_step = min(k, n - 1).
C4_Forward ==
    /\ [][\A s \in Sessions :
             NextClick(s)
                => LET id == runs[s].id
                       stored == lesson_assignments[id].progress_step
                       n == TotalSteps(FriendlyText(id))
                   IN  /\ lesson_assignments'[id].progress_step =
                              IF runs[s].current_step < n - 1
                              THEN runs[s].current_step + 1
                              ELSE stored
                       /\ runs[s].current_step = ClampStep(stored, n)
                             => lesson_assignments'[id].progress_step
                                   = AfterForward(stored, n)]_vars
    /\ [](\A l \in DOMAIN lessons :
             LET n == TotalSteps(lessons[l].friendly_text)
             IN  n >= 1 => \A k \in 0..MaxAdvances : ForwardTimes(k, n) = Min(k, n - 1))

\* a Next click at the last step of a three-step lesson was ignored
C4_Witness ==
    /\ last = [op |-> "next", branch |-> "ignored"]
    /\ \E id \in AssignmentIds :
          /\ TotalSteps(FriendlyText(id)) = 3
          /\ lesson_assignments[id].status = "assigned"
          /\ lesson_assignments[id].progress_step = 2
    /\ \A id \in AssignmentIds : lesson_assignments[id].progress_step = 2

\* C5: the Back click stores current step - 1 when the current step is above 0 and
\* leaves the stored progress_step alone when it is 0.
C5_Backward ==
    [][\A s \in Sessions :
          BackClick(s)
             => LET id == runs[s].id
                IN  lesson_assignments'[id].progress_step =
                       IF runs[s].current_step > 0
                       THEN runs[s].current_step - 1
                       ELSE lesson_assignments[id].progress_step]_vars

\* a Back click at step 0 of a lesson with more than one step was ignored
C5_Witness ==
    /\ last = [op |-> "back", branch |-> "ignored"]
    /\ AssignmentIds # {}
    /\ \A id \in AssignmentIds :
          /\ TotalSteps(FriendlyText(id)) >= 2
          /\ lesson_assignments[id].progress_step = 0

\* C6: for every assignment the learner page lists, the step index the read path computes
\* lies in 0 .. total_steps - 1 and indexing the steps with it raises no IndexError.
C6_ReadInRange ==
    \A id \in AssignmentIds :
        id \in get_assigned_lessons(lesson_assignments[id].learner_id)
           => /\ CurrentStep(id) \in 0..(TotalSteps(FriendlyText(id)) - 1)
              /\ ~Raises(id)

\* C7: a Back or Next click changes at most the progress_step of the row it was pressed
\* on: no row is added or removed, every other column of that row and every other row
\* stay as they were.
C7_AdvanceFrame ==
    [][\A s \in Sessions :
          (BackClick(s) \/ NextClick(s))
             => /\ DOMAIN lesson_assignments' = DOMAIN lesson_assignments
                /\ \A id \in AssignmentIds :
                      lesson_assignments'[id] =
                         IF id = runs[s].id
                         THEN [lesson_assignments[id] EXCEPT !.progress_step =
                                  lesson_assignments'[id].progress_step]
                         ELSE lesson_assignments[id]]_vars

\* a click moved one of two assignments of the same lesson, the other one is completed
\* and at another step
C7_Witness ==
    /\ last.op \in {"back", "next"} /\ last.branch = "moved"
    /\ \E a, b \in AssignmentIds :
          /\ a # b
          /\ lesson_assignments[a].lesson_id = lesson_assignments[b].lesson_id
          /\ lesson_assignments[a].status = "assigned"
          /\ lesson_assignments[b].status = "completed"
          /\ lesson_assignments[a].progress_step # lesson_assignments[b].progress_step

\* C8: resolved is 0 or 1, a new request has resolved = 0, the "Mark resolved" click makes
\* it 1, and no step (a second resolve included) takes it from 1 back to 0.
C8_ResolvedOneWay ==
    /\ [](\A id \in DOMAIN help_requests : help_requests[id].resolved \in {0, 1})
    /\ [][/\ \A id \in DOMAIN help_requests :
                help_requests[id].resolved = 1 => help_requests'[id].resolved = 1
          /\ \A id \in DOMAIN help_requests' \ DOMAIN help_requests :
                help_requests'[id].resolved = 0
          /\ \A u \in UserIds, id \in DOMAIN help_requests :
                Resolve(u, id, 0) => help_requests'[id].resolved = 1]_vars

\* a resolved request was opened again and showed the "Resolved" notice
C8_Witness ==
    /\ last = [op |-> "resolve", branch |-> "notice"]
    /\ \E id \in DOMAIN help_requests : help_requests[id].resolved = 1

\* C9: sending an empty or whitespace-only message changes no table; sending any other
\* message appends exactly one request, from that learner to the chosen linked grown-up,
\* with resolved = 0, and changes nothing else.
C9_SubmitValidates ==
    [][\A l \in UserIds, g \in UserIds, message \in MessageInputs :
          SendHelpRequest(l, GrownupLabel(g), message)
             => /\ UNCHANGED <<users, teacher_learners, parent_children, lessons,
                               lesson_assignments>>
                /\ IF Strip(message) = <<>>
                   THEN UNCHANGED help_requests
                   ELSE /\ Len(help_requests') = Len(help_requests) + 1
                        /\ SubSeq(help_requests', 1, Len(help_requests)) = help_requests
                        /\ LET row == help_requests'[Len(help_requests')]
                           IN  /\ row.learner_id = l
                               /\ row.resolved = 0
                               /\ row.to_user_id \in get_linked_grownups_for_learner(l)
                               /\ GrownupLabel(row.to_user_id) = GrownupLabel(g)]_vars

\* a blank message was turned down after one request had been sent
C9_Witness ==
    /\ last = [op |-> "help", branch |-> "rejected"]
    /\ Len(help_requests) = 1
    /\ help_requests[1].resolved = 0

\* C10: a learner linked to a teacher, however many times, is listed once by
\* get_teacher_learners.
C10_ListedOnce ==
    \A t \in UserIds, l \in UserIds :
        (\E i \in DOMAIN teacher_learners :
            teacher_learners[i] = [grownup_id |-> t, learner_id |-> l])
           => Cardinality({i \in DOMAIN get_teacher_learners(t) :
                              get_teacher_learners(t)[i] = l}) = 1

\* C11 as stated: the same lesson can be assigned to the same learner again, that is,
\* while the table has room some step adds a second row with the (lesson_id, learner_id)
\* of an existing row.
C11_CanAssignAgain ==
    \A id \in AssignmentIds :
        Len(lesson_assignments) < MaxAssignments
           => ENABLED (/\ NextCreate
                       /\ \E j \in DOMAIN lesson_assignments' :
                             /\ j > Len(lesson_assignments)
                             /\ lesson_assignments'[j].lesson_id
                                   = lesson_assignments[id].lesson_id
                             /\ lesson_assignments'[j].learner_id
                                   = lesson_assignments[id].learner_id)

\* C11, amended: no two assignment rows have the same (lesson_id, learner_id): a save
\* creates a new lesson and inserts one row per selected label, the labels of one
\* multiselect name different learners, and no other handler inserts assignments.
C11_NoRepeatedPair ==
    \A a \in AssignmentIds, b \in AssignmentIds :
        a # b => \/ lesson_assignments[a].lesson_id # lesson_assignments[b].lesson_id
                 \/ lesson_assignments[a].learner_id # lesson_assignments[b].learner_id

\* a lesson was saved for a learner the teacher has linked twice, and the table has room
\* for a second row
C11_Witness ==
    /\ last = [op |-> "save_lesson", branch |-> "saved"]
    /\ Len(lesson_assignments) = 1
    /\ Len(lesson_assignments) < MaxAssignments
    /\ LET row == lesson_assignments[1]
       IN  /\ row.lesson_id \in DOMAIN lessons
           /\ Cardinality({i \in DOMAIN teacher_learners :
                  teacher_learners[i] = [grownup_id |-> lessons[row.lesson_id].owner_id,
                                         learner_id |-> row.learner_id]}) = 2

\* C12: a sign-up with an empty name, email or password, with two different passwords or
\* with an email that already has an account changes no table; a save of a lesson form
\* with an empty title, original text or simplified text changes no table either: no
\* account, no lesson and no assignment is inserted.
C12_RejectedChangesNothing ==
    [][/\ \A role \in Roles, name \in NameInputs, email \in EmailInputs,
             password \in PasswordInputs, password2 \in PasswordInputs :
             (/\ Signup(role, name, email, password, password2)
              /\ \/ name = "" \/ email = "" \/ password = ""
                 \/ password # password2
                 \/ \E i \in UserIds : users[i].email = email)
                => UNCHANGED <<users, teacher_learners, parent_children, lessons,
                               lesson_assignments, help_requests>>
       /\ \A g \in UserIds, f \in LessonForms :
             (/\ \/ TeacherSaveLesson(g, f.title, f.original_text, f.friendly_text)
                 \/ ParentSaveLesson(g, f.title, f.original_text, f.friendly_text)
              /\ f.title = "" \/ f.original_text = "" \/ f.friendly_text = <<>>)
                => UNCHANGED <<users, teacher_learners, parent_children, lessons,
                               lesson_assignments, help_requests>>]_vars

\* a teacher with a linked learner pressed the save button on an incomplete form, after a
\* sign-up had been turned down: two accounts, no lesson, no assignment
C12_Witness ==
    /\ last = [op |-> "save_lesson", branch |-> "rejected"]
    /\ Len(users) = 2
    /\ \E t \in UserIds : get_teacher_learners(t) # <<>>
    /\ lessons = <<>>
    /\ lesson_assignments = <<>>

\* C13 as stated: the lesson row is committed on its own, so when learners are selected
\* and the process dies after the lesson's INSERT and before the first assignment's, the
\* lesson is in the database and none of its assignments is.
C13_OrphanAfterCrash ==
    [][\A g \in UserIds, f \in LessonForms, selected_names \in Selections(LabelInputs) :
          (/\ SaveLessonCrash(g, selected_names, f.title, f.original_text,
                              f.friendly_text, 1)
           /\ selected_names # <<>>)
             => /\ Len(lessons') = Len(lessons) + 1
                /\ lesson_assignments' = lesson_assignments]_vars

\* C13, amended: saving a lesson and inserting its assignments are one commit point, the
\* conn.commit() after the loop: when the process dies after the lesson's INSERT or after
\* any of the assignments' INSERTs and before that commit, neither the lesson nor any of
\* its assignments is in the database; a save that reaches the commit leaves the lesson
\* and one assignment of it per selected learner.
C13_OneCommitPoint ==
    [][/\ \A g \in UserIds, f \in LessonForms,
             selected_names \in Selections(LabelInputs),
             executed \in 1..(MaxAssignments + 1) :
             SaveLessonCrash(g, selected_names, f.title, f.original_text,
                             f.friendly_text, executed)
                => /\ lessons' = lessons
                   /\ lesson_assignments' = lesson_assignments
       /\ \A g \in UserIds, f \in LessonForms :
             (/\ \/ TeacherSaveLesson(g, f.title, f.original_text, f.friendly_text)
                 \/ ParentSaveLesson(g, f.title, f.original_text, f.friendly_text)
              /\ ~FormMissing(f.title, f.original_text, f.friendly_text))
                => /\ Len(lessons') = Len(lessons) + 1
                   /\ SubSeq(lesson_assignments', 1, Len(lesson_assignments))
                         = lesson_assignments
                   /\ \A j \in DOMAIN lesson_assignments' \ DOMAIN lesson_assignments :
                         lesson_assignments'[j].lesson_id = Len(lessons')]_vars

\* the process died after the lesson's INSERT and the INSERT of the one selected
\* learner's assignment: both tables are as empty as before
C13_Witness ==
    /\ last = [op |-> "save_lesson", branch |-> "crashed", executed |-> 2,
               selected |-> 1]
    /\ lessons = <<>>
    /\ lesson_assignments = <<>>

\* C14: a click writes what the run computed from its own read, with no test of what is
\* stored by then: Next stores the read step + 1, Back the read step - 1 and Finish the
\* completed row, whatever another session wrote in between; so when another session has
\* already advanced the row from the same read step s, this run's Next leaves the stored
\* progress_step at s + 1, not s + 2.
C14_LastWriteWins ==
    [][\A s \in Sessions :
          LET id == runs[s].id
              stored == lesson_assignments[id].progress_step
              after == lesson_assignments'[id]
          IN  /\ (NextClick(s) /\ runs[s].current_step < runs[s].total_steps - 1)
                    => /\ after.progress_step = runs[s].current_step + 1
                       /\ stored = runs[s].current_step + 1
                             => after.progress_step = stored
              /\ (BackClick(s) /\ runs[s].current_step > 0)
                    => after.progress_step = runs[s].current_step - 1
              /\ \A now \in Times :
                    (FinishClick(s, now) /\ runs[s].status # "completed")
                       => /\ after.status = "completed"
                          /\ after.progress_step = runs[s].total_steps - 1
                          /\ after.completed_at = now]_vars

\* two sessions read a three-step lesson at step 0 and each pressed Next: the second
\* click found step 1 stored and stored step 1 again
C14_Witness ==
    /\ last = [op |-> "next", branch |-> "moved", read |-> 0, stored |-> 1]
    /\ \A s \in Sessions : runs[s] = NoRun
    /\ Len(lesson_assignments) = 1
    /\ TotalSteps(FriendlyText(1)) = 3
    /\ lesson_assignments[1].status = "assigned"
    /\ lesson_assignments[1].progress_step = 1

\* C15: in every state an assignment's completed_at is null exactly when its status is
\* 'assigned' and not null exactly when its status is 'completed'; every row a step adds
\* has status 'assigned', progress_step 0 and completed_at null.
C15_TimestampIffCompleted ==
    /\ [](\A id \in AssignmentIds :
             LET row == lesson_assignments[id]
             IN  /\ row.completed_at = NULL <=> row.status = "assigned"
                 /\ row.completed_at # NULL <=> row.status = "completed")
    /\ [][\A id \in DOMAIN lesson_assignments' \ DOMAIN lesson_assignments :
             /\ lesson_assignments'[id].status = "assigned"
             /\ lesson_assignments'[id].progress_step = 0
             /\ lesson_assignments'[id].completed_at = NULL]_vars

\* of the two assignments of a lesson one was just finished and carries its time, the
\* other is as it was created
C15_Witness ==
    /\ last = [op |-> "finish", branch |-> "completed"]
    /\ \E a \in AssignmentIds, b \in AssignmentIds :
          /\ lesson_assignments[a].status = "completed"
          /\ lesson_assignments[a].completed_at \in Times
          /\ lesson_assignments[b] =
                NewAssignment(lesson_assignments[a].lesson_id,
                              lesson_assignments[b].learner_id)

\* C16: in every state the lesson of every assignment exists and its owner has an edge
\* to the assignment's learner in the table of the owner's role: teacher_learners for a
\* lesson a teacher owns, parent_children for a lesson a parent owns.
C16_AssignedOnlyToLinked ==
    \A id \in AssignmentIds :
        LET row == lesson_assignments[id]
        IN  /\ row.lesson_id \in DOMAIN lessons
            /\ LET edge == [grownup_id |-> lessons[row.lesson_id].owner_id,
                            learner_id |-> row.learner_id]
                   role == lessons[row.lesson_id].owner_role
               IN  /\ role \in {"teacher", "parent"}
                   /\ role = users[edge.grownup_id].role
                   /\ role = "teacher" => \E i \in DOMAIN teacher_learners :
                                               teacher_learners[i] = edge
                   /\ role = "parent" => \E i \in DOMAIN parent_children :
                                              parent_children[i] = edge

\* a parent saved a lesson for their child
C16_Witness ==
    /\ last = [op |-> "save_lesson", branch |-> "saved"]
    /\ \E id \in AssignmentIds :
          /\ lessons[lesson_assignments[id].lesson_id].owner_role = "parent"
          /\ users[lesson_assignments[id].learner_id].role = "learner"
          /\ teacher_learners = <<>>

\* C17: the Back click of a run that shows a step above 0 of an assignment stored as
\* 'completed', of a lesson with at least two steps, stores the shown step - 1 and leaves
\* status 'completed' and completed_at as they were; so a completed assignment need not
\* have progress_step = total_steps - 1.
C17_BackOnCompleted ==
    [][\A s \in Sessions :
          LET id == runs[s].id
              before == lesson_assignments[id]
              after == lesson_assignments'[id]
          IN  (/\ BackClick(s)
               /\ before.status = "completed"
               /\ TotalSteps(FriendlyText(id)) >= 2
               /\ runs[s].current_step > 0)
                 => /\ after.progress_step = runs[s].current_step - 1
                    /\ after.progress_step < TotalSteps(FriendlyText(id)) - 1
                    /\ after.status = "completed"
                    /\ after.completed_at = before.completed_at]_vars

\* a finished two-step lesson was stepped back to its first step: completed, with its
\* time, at step 0 of 2
C17_Witness ==
    /\ last.op = "back" /\ last.branch = "moved"
    /\ Len(lesson_assignments) = 1
    /\ TotalSteps(FriendlyText(1)) = 2
    /\ lesson_assignments[1].status = "completed"
    /\ lesson_assignments[1].completed_at \in Times
    /\ lesson_assignments[1].progress_step = 0

====
